---- MODULE Spec2Model ----
(***************************************************************************)
(* Gmail Job Application Tracker: the background service worker's run      *)
(* pipeline (background.js), the per-item loop (src/email-processor.js),   *)
(* the scanned-id store (ScannedTracker), the record store (CSVManager)    *)
(* and the checkpoint (ConfigManager), as one state machine.               *)
(*                                                                         *)
(* JavaScript runs every handler to its next await; a step of the model is *)
(* one such stretch: it starts when an awaited call resolves and ends at   *)
(* the next await the code reaches.                                        *)
(***************************************************************************)
EXTENDS Integers, Sequences, FiniteSets, TLC

\* ---------------------------------------------------------------- bounds
\* Mail the inbox can hold, the largest per-run item cap, and the number
\* of processEmails requests of one behaviour.
MaxMail == 2
MaxLimit == 2
MaxStarts == 2
\* The per-run caps of the requests in progress together add up to at most this
MaxLoad == 3
\* Rows the record table holds when addRecords is driven directly
MaxTable == 4

\* Math.min(requestedLimit + scannedIds.size, 500)
GmailCap == 500

\* The run slots: handleProcessEmails invocations that can be in progress
\* together (nothing in background.js refuses a second one).
Runs == {"a", "b"}

Ids == 1..MaxMail
Limits == 1..MaxLimit

\* An absent value (JavaScript null) of a string-valued field.
Absent == "<absent>"
NoCheckpoint == 0

\* ---------------------------------------------------------------- helpers
Min(a, b) == IF a < b THEN a ELSE b

Range(s) == {s[k] : k \in 1..Len(s)}

RECURSIVE FilterSeq(_, _)
\* Array.prototype.filter with the predicate "element is in keep", the array
\* taken by halves
FilterSeq(s, keep) ==
  IF Len(s) = 0 THEN <<>>
  ELSE IF Len(s) = 1 THEN (IF s[1] \in keep THEN s ELSE <<>>)
  ELSE LET half == Len(s) \div 2
       IN FilterSeq(SubSeq(s, 1, half), keep)
            \o FilterSeq(SubSeq(s, half + 1, Len(s)), keep)

\* Array.prototype.slice(0, n)
Slice(s, n) == SubSeq(s, 1, Min(n, Len(s)))

\* parseEmailDate(getHeader('Date')): the Date header is the sender's, so
\* listing order is not date order; mail 1 carries date 2, mail 2 date 1, ...
DateOf(id) == IF id % 2 = 1 THEN id + 1 ELSE id - 1

RECURSIVE MaxDate(_)
\* emails.reduce((latest, email) => date(email) > date(latest) ? email : latest).date
MaxDate(s) ==
  IF Len(s) = 1 THEN DateOf(s[1])
  ELSE LET m == MaxDate(SubSeq(s, 1, Len(s) - 1))
       IN IF DateOf(s[Len(s)]) > m THEN DateOf(s[Len(s)]) ELSE m

\* ---------------------------------------------------------------- inference
\* What callAI can come back with for the categorization prompt: a text,
\* an error whose message carries 'rate limit'/'429', or another error.
CategorizeReplies == {"YES", "NO", "429", "fail"}

\* A date-like value the backend may put in its JSON; no message carries it
BackendDate == MaxMail + 2

\* What callAI can come back with for the extraction prompt.
ExtractReplies ==
  { [kind |-> "json", company |-> "Acme", position |-> "null",
     application_date |-> BackendDate],
    [kind |-> "json", company |-> "null", position |-> "null",
     application_date |-> BackendDate],
    [kind |-> "429",  company |-> Absent, position |-> Absent,
     application_date |-> Absent],
    [kind |-> "fail", company |-> Absent, position |-> Absent,
     application_date |-> Absent] }

\* AIProvider.categorizeEmail: answer.includes('yes'); a callAI error is
\* rethrown with its message kept.
AICategorize(reply) ==
  IF reply \in {"429", "fail"}
  THEN [threw |-> TRUE, rateLimit |-> (reply = "429"), value |-> FALSE]
  ELSE [threw |-> FALSE, rateLimit |-> FALSE, value |-> (reply = "YES")]

\* cleanValue of parseExtractionResponse
CleanValue(val) ==
  IF val \in {Absent, "", "null", "NULL", "None"} THEN Absent ELSE val

\* Variant: the extraction counts only with both fields present
AIExtractNeedsBoth(reply) ==
  IF reply.kind # "json"
  THEN [threw |-> TRUE, rateLimit |-> (reply.kind = "429"),
        company |-> Absent, position |-> Absent]
  ELSE LET c == CleanValue(reply.company)
           p == CleanValue(reply.position)
       IN [threw |-> (c = Absent \/ p = Absent), rateLimit |-> FALSE,
           company |-> c, position |-> p]

\* AIProvider.extractInformation: parse, then throw when both fields are empty
AIExtract(reply) ==
  IF reply.kind # "json"
  THEN [threw |-> TRUE, rateLimit |-> (reply.kind = "429"),
        company |-> Absent, position |-> Absent]
  ELSE LET c == CleanValue(reply.company)
           p == CleanValue(reply.position)
       IN [threw |-> (c = Absent /\ p = Absent), rateLimit |-> FALSE,
           company |-> c, position |-> p]

\* ---------------------------------------------------------------- state
VARIABLES
  isProcessing,          \* background.js: let isProcessing
  shouldStopProcessing,  \* background.js: let shouldStopProcessing
  scannedEmailIds,       \* chrome.storage.local 'scannedEmailIds'
  csvRecords,            \* chrome.storage.local 'csvRecords'
  lastCheckpoint,        \* chrome.storage.local 'lastCheckpoint'
  mailCount,             \* the inbox: mail 1..mailCount, listed newest first
  started,               \* processEmails requests received so far
  run,                   \* per slot: the position and locals of handleProcessEmails
  classified             \* history: the mail ids sent to classify since the last clear

vars == <<isProcessing, shouldStopProcessing, scannedEmailIds, csvRecords,
          lastCheckpoint, mailCount, started, run, classified>>

store == <<scannedEmailIds, csvRecords, lastCheckpoint>>
flags == <<isProcessing, shouldStopProcessing>>

NoResponse == [kind |-> "none", stopped |-> FALSE, emailsScanned |-> 0,
               confirmationsFound |-> 0, newRecords |-> 0,
               duplicatesSkipped |-> 0, errors |-> 0, emailDetails |-> <<>>]

ZeroStats == [emailsScanned |-> 0, confirmationsFound |-> 0,
              successfulExtractions |-> 0, errors |-> 0]

IdleRun ==
  [pc |-> "idle", requestedLimit |-> 0, scannedIds |-> {},
   fetchLimit |-> 0,
   emails |-> <<>>, unscannedEmails |-> <<>>, alreadyScanned |-> 0, i |-> 0,
   emailDetails |-> <<>>, records |-> <<>>, stats |-> ZeroStats,
   attempted |-> <<>>, processedIds |-> <<>>, markBase |-> {},
   newRecords |-> <<>>, csvDuplicates |-> 0, allRecords |-> <<>>,
   stopPending |-> FALSE, response |-> NoResponse]

Init ==
  /\ isProcessing = FALSE
  /\ shouldStopProcessing = FALSE
  /\ scannedEmailIds = {}
  /\ csvRecords = <<>>
  /\ lastCheckpoint = NoCheckpoint
  /\ mailCount = 0
  /\ started = 0
  /\ run = [r \in Runs |-> IdleRun]
  /\ classified = {}

\* messages.list: newest first
Listing == [k \in 1..mailCount |-> mailCount - k + 1]

MessageIds(recs) == {recs[k].message_id : k \in 1..Len(recs)}

RECURSIVE FilterNew(_, _)
\* records.filter(record => !existingIds.has(record.message_id))
FilterNew(recs, existingIds) ==
  IF recs = <<>> THEN <<>>
  ELSE IF Head(recs).message_id \in existingIds
       THEN FilterNew(Tail(recs), existingIds)
       ELSE <<Head(recs)>> \o FilterNew(Tail(recs), existingIds)

Active(r) == run[r].pc \notin {"idle", "done"}

\* "done" only holds a finished request's outcome until the popup has taken
\* it, which it does before anything else happens
Quiet == \A r \in Runs : run[r].pc # "done"
Set(r, rs) == run' = [run EXCEPT ![r] = rs]

\* Variant: the catch block logs the error and answers nothing
ErrorResponseMissing == NoResponse

\* Variant: the catch block answers as a success with nothing found
ErrorResponseSaysSuccess == [NoResponse EXCEPT !.kind = "success"]

\* sendResponse({success: false, error}) of the catch block
ErrorResponse == [NoResponse EXCEPT !.kind = "error"]

\* catch + finally of handleProcessEmails: respond with the error, clear isProcessing
Fail(r) ==
  /\ Set(r, [run[r] EXCEPT !.pc = "done", !.stopPending = FALSE,
                           !.response = ErrorResponse])
  /\ isProcessing' = FALSE

\* sendResponse({success: true, stopped, results}) after the loop, then finally
Succeed(rs, newCount) ==
  [rs EXCEPT !.pc = "done",
             !.response = [kind |-> "success",
                           stopped |-> shouldStopProcessing,
                           emailsScanned |-> rs.stats.emailsScanned,
                           confirmationsFound |-> rs.stats.confirmationsFound,
                           newRecords |-> newCount,
                           duplicatesSkipped |-> rs.alreadyScanned + rs.csvDuplicates,
                           errors |-> rs.stats.errors,
                           emailDetails |-> rs.emailDetails]]

\* Variant: both early returns answer duplicatesSkipped: 0
EarlyResponseNoDups(dups) ==
  [NoResponse EXCEPT !.kind = "success"]

\* The early returns on an empty batch and on a batch with nothing unscanned
EarlyResponse(dups) ==
  [NoResponse EXCEPT !.kind = "success", !.duplicatesSkipped = dups]

\* ---------------------------------------------------------------- control surface
\* The per-run caps of the requests in progress
Load ==
  (IF Active("a") THEN run["a"].requestedLimit ELSE 0)
  + (IF Active("b") THEN run["b"].requestedLimit ELSE 0)

\* The slot a new request takes: the names of the slots carry no meaning
FreeSlot == IF run["a"].pc = "idle" THEN "a" ELSE "b"

\* onMessage 'processEmails' -> handleProcessEmails up to its first await
StartRun(r) ==
  /\ Quiet
  /\ run[r].pc = "idle"
  /\ r = FreeSlot
  /\ started < MaxStarts
  /\ \E limit \in Limits :
       /\ limit + Load <= MaxLoad
       /\ Set(r, [IdleRun EXCEPT !.pc = "auth", !.requestedLimit = limit])
  /\ started' = started + 1
  /\ isProcessing' = TRUE
  /\ shouldStopProcessing' = FALSE
  /\ UNCHANGED <<store, mailCount, classified>>

\* Positions of a run from its start to the end of its per-item loop
LoopPcs == {"classify", "classify_backoff", "classify_retry",
            "extract", "extract_backoff", "extract_retry", "delay"}
PreLoopPcs == {"auth", "scan", "fetch"}

\* onMessage 'stopProcessing'.  stopPending remembers, until the run leaves
\* its loop, that a request arrived after the run started.
StopProcessing ==
  /\ Quiet
  /\ shouldStopProcessing' = TRUE
  /\ run' = [r \in Runs |->
               IF run[r].pc \in (PreLoopPcs \cup LoopPcs)
               THEN [run[r] EXCEPT !.stopPending = TRUE]
               ELSE run[r]]
  /\ UNCHANGED <<isProcessing, store, mailCount, started, classified>>

\* popup: chrome.storage.local.remove('scannedEmailIds')
ClearScanned ==
  /\ Quiet
  /\ scannedEmailIds # {}
  /\ scannedEmailIds' = {}
  /\ classified' = {}
  /\ UNCHANGED <<flags, csvRecords, lastCheckpoint, mailCount, started, run>>

\* A new message reaches the inbox
Deliver ==
  /\ Quiet
  /\ mailCount < MaxMail
  /\ mailCount' = mailCount + 1
  /\ UNCHANGED <<flags, store, started, run, classified>>

\* The popup takes the response of a finished request
Collect(r) ==
  /\ run[r].pc = "done"
  /\ Set(r, IdleRun)
  /\ UNCHANGED <<flags, store, mailCount, started, classified>>
\* ---------------------------------------------------------------- the run
\* await gmailClient.getAccessToken(): a token, or authentication fails
\* ('Gmail authentication required' / 'Gmail authentication failed')
AuthDone(r) ==
  /\ Quiet
  /\ run[r].pc = "auth"
  /\ \/ /\ Set(r, [run[r] EXCEPT !.pc = "scan"])
        /\ UNCHANGED isProcessing
     \/ Fail(r)
  /\ UNCHANGED <<shouldStopProcessing, store, mailCount, started, classified>>

\* ScannedTracker.getScannedIds: the stored ids, or an empty Set when the
\* storage read fails
GetScannedIds(ok) == IF ok THEN scannedEmailIds ELSE {}

\* CSVManager.readCSV: the stored records, or [] when the storage read fails
ReadCSV(ok) == IF ok THEN csvRecords ELSE <<>>

\* Variant: the size asked of the connector leaves the seen set out
FetchLimitIgnoresSeen(requestedLimit, scannedIds) ==
  Min(requestedLimit, GmailCap)

\* const fetchLimit = Math.min(requestedLimit + scannedIds.size, 500)
FetchLimit(requestedLimit, scannedIds) ==
  Min(requestedLimit + Cardinality(scannedIds), GmailCap)

\* const scannedIds = await scannedTracker.getScannedIds(), then the size of
\* the fetch, up to the call of fetchEmails({maxResults: fetchLimit})
ScanDone(r) ==
  /\ Quiet
  /\ run[r].pc = "scan"
  /\ \E ok \in BOOLEAN :
       LET scannedIds == GetScannedIds(ok)
       IN Set(r, [run[r] EXCEPT !.pc = "fetch", !.scannedIds = scannedIds,
                    !.fetchLimit = FetchLimit(run[r].requestedLimit, scannedIds)])
  /\ UNCHANGED <<flags, store, mailCount, started, classified>>

\* processedIds = emailDetails.map((_, idx) => unscannedEmails[idx].messageId)
ProcessedIds(rs) == [k \in 1..Len(rs.emailDetails) |-> rs.unscannedEmails[k]]

\* processEmails has returned: handleProcessEmails goes on to markAsScanned
\* (when it has ids to mark) or straight to getExistingMessageIds
AfterLoop(rs) ==
  LET ids == ProcessedIds(rs)
  IN [rs EXCEPT !.processedIds = ids, !.stopPending = FALSE,
                !.pc = IF Len(ids) > 0 THEN "mark_read" ELSE "csv_ids"]

\* Top of the for loop for item rs.i: the bound, the shouldStopCallback check,
\* then the body up to the categorizeEmail call
NextItem(rs, stop) ==
  IF rs.i > Len(rs.unscannedEmails) \/ stop
  THEN AfterLoop(rs)
  ELSE [rs EXCEPT !.pc = "classify",
                  !.stats.emailsScanned = @ + 1,
                  !.attempted = Append(@, rs.unscannedEmails[rs.i])]

\* Variant: the entry goes to the front of the outcome log
PushDetailFront(rs, status, isConf) ==
  [rs EXCEPT !.emailDetails =
     <<[index |-> rs.i, status |-> status, isConfirmation |-> isConf]>> \o @]

\* emailDetails.push(emailInfo)
PushDetail(rs, status, isConf) ==
  [rs EXCEPT !.emailDetails =
     Append(@, [index |-> rs.i, status |-> status, isConfirmation |-> isConf])]

\* The categorizeEmail call of item rs.i (when one was issued) enters the history
LogClassify(rs) ==
  IF rs.pc = "classify"
  THEN classified \cup {rs.unscannedEmails[rs.i]}
  ELSE classified

\* Variant: the slice taken before the filter, so that seen items use up the limit
UnscannedSliceFirst(emails, scannedIds, requestedLimit) ==
  FilterSeq(Slice(emails, requestedLimit), Range(emails) \ scannedIds)

\* emails.filter(email => !scannedIds.has(email.messageId)).slice(0, requestedLimit)
Unscanned(emails, scannedIds, requestedLimit) ==
  Slice(FilterSeq(emails, Range(emails) \ scannedIds), requestedLimit)

\* Variant: one rejected detail fetch empties the batch
FetchEmailsAllOrNothing(listed, fetched, checkpoint) ==
  IF fetched = Range(listed) THEN listed ELSE <<>>

\* GmailClient.fetchEmails after a successful listing: Promise.allSettled over
\* the listed messages, the rejected ones filtered out, and with a checkpoint
\* the messages dated after it
FetchEmails(listed, fetched, checkpoint) ==
  LET emails == FilterSeq(listed, fetched)
  IN IF checkpoint = NoCheckpoint
     THEN emails
     ELSE FilterSeq(emails, {id \in Ids : DateOf(id) > checkpoint})

\* What handleProcessEmails does once fetchEmails has resolved, the detail
\* fetches of the messages in fetched having succeeded: the two early
\* returns, the filter and slice, and the start of the loop
FetchResolved(r, fetched) ==
  LET rs0 == run[r]
      listed == Slice(Listing, rs0.fetchLimit)
      emails == FetchEmails(listed, fetched, NoCheckpoint)
      fresh == FilterSeq(emails, Range(emails) \ rs0.scannedIds)
      unscanned == Unscanned(emails, rs0.scannedIds, rs0.requestedLimit)
      alreadyScanned == Len(emails) - Len(fresh)
      rs1 == [rs0 EXCEPT !.emails = emails, !.unscannedEmails = unscanned,
                         !.alreadyScanned = alreadyScanned, !.i = 1]
  IN IF Len(emails) = 0 \/ Len(unscanned) = 0
     THEN /\ Set(r, [rs1 EXCEPT !.pc = "done", !.i = 0, !.stopPending = FALSE,
                        !.response = EarlyResponse(alreadyScanned)])
          /\ isProcessing' = FALSE
          /\ UNCHANGED classified
     ELSE LET rs2 == NextItem(rs1, shouldStopProcessing)
          IN /\ Set(r, rs2)
             /\ classified' = LogClassify(rs2)
             /\ UNCHANGED isProcessing

\* const emails = await gmailClient.fetchEmails(...): the first fetchLimit
\* listed messages whose detail fetch succeeded, or the listing call fails
FetchDone(r) ==
  /\ Quiet
  /\ run[r].pc = "fetch"
  /\ \/ /\ Fail(r)
        /\ UNCHANGED classified
     \/ \E fetched \in SUBSET Range(Slice(Listing, run[r].fetchLimit)) :
          FetchResolved(r, fetched)
  /\ UNCHANGED <<shouldStopProcessing, store, mailCount, started>>

\* Variant: the catch logs the item's error without counting it
ItemErrorUncounted(rs) ==
  LET rs1 == PushDetail(rs, "error", rs.pc \in {"extract", "extract_retry"})
  IN NextItem([rs1 EXCEPT !.i = @ + 1], shouldStopProcessing)

\* Variant: an item's failure leaves the loop instead of going on to the next item
ItemErrorAborts(rs) ==
  LET rs1 == PushDetail(rs, "error", rs.pc \in {"extract", "extract_retry"})
  IN AfterLoop([rs1 EXCEPT !.stats.errors = @ + 1, !.i = @ + 1])

\* catch of the loop body: the item's outcome is the error; no delay follows
ItemError(rs) ==
  LET rs1 == PushDetail(rs, "error", rs.pc \in {"extract", "extract_retry"})
  IN NextItem([rs1 EXCEPT !.stats.errors = @ + 1, !.i = @ + 1], shouldStopProcessing)

\* Variant: an item classified negative is handed to extraction all the same
ItemSkippedExtracts(rs) ==
  [PushDetail(rs, "skipped", FALSE) EXCEPT !.pc = "extract"]

\* Variant: a skipped item continues without an entry in emailDetails
ItemSkippedNoPush(rs) ==
  NextItem([rs EXCEPT !.i = @ + 1], shouldStopProcessing)

\* 'Skipped - Not a job confirmation', then continue
ItemSkipped(rs) ==
  NextItem([PushDetail(rs, "skipped", FALSE) EXCEPT !.i = @ + 1], shouldStopProcessing)

\* Variant: the first call is retried after any failure, rate limit or not
CategorizeEmailRetriesAll(rs, reply) ==
  LET res == AICategorize(reply)
  IN IF res.threw
     THEN IF rs.pc = "classify"
          THEN [rs EXCEPT !.pc = "classify_backoff"]
          ELSE ItemError(rs)
     ELSE IF res.value
          THEN [rs EXCEPT !.pc = "extract",
                          !.stats.confirmationsFound = @ + 1]
          ELSE ItemSkipped(rs)

\* EmailProcessor.categorizeEmail on the reply of its pending call (the first
\* call at "classify", the one retry at "classify_retry"), and what the loop
\* body does with the result
CategorizeEmail(rs, reply) ==
  LET res == AICategorize(reply)
  IN IF res.threw
     THEN IF res.rateLimit /\ rs.pc = "classify"
          THEN [rs EXCEPT !.pc = "classify_backoff"]
          ELSE ItemError(rs)
     ELSE IF res.value
          THEN [rs EXCEPT !.pc = "extract",
                          !.stats.confirmationsFound = @ + 1]
          ELSE ItemSkipped(rs)

\* A call of aiProvider.categorizeEmail resolves
ClassifyDone(r) ==
  /\ Quiet
  /\ run[r].pc \in {"classify", "classify_retry"}
  /\ \E reply \in CategorizeReplies :
       LET rs2 == CategorizeEmail(run[r], reply)
       IN /\ Set(r, rs2)
          /\ classified' = LogClassify(rs2)
  /\ UNCHANGED <<flags, store, mailCount, started>>

\* await this.delay(2000) before the retry
BackoffDone(r) ==
  /\ Quiet
  /\ run[r].pc \in {"classify_backoff", "extract_backoff"}
  /\ Set(r, [run[r] EXCEPT !.pc = IF @ = "classify_backoff"
                                  THEN "classify_retry" ELSE "extract_retry"])
  /\ UNCHANGED <<flags, store, mailCount, started, classified>>

\* The record of lines 86-93 of email-processor.js
MakeRecord(id, data) ==
  [message_id |-> id, company |-> data.company, position |-> data.position,
   email_date |-> DateOf(id)]

\* Variant: the record's email_date is the date of the backend's reply
ExtractInformationKeepsDate(rs, reply) ==
  LET res == AIExtract(reply)
      id == rs.unscannedEmails[rs.i]
  IN IF ~res.threw
     THEN [PushDetail(rs, "success", TRUE) EXCEPT
             !.records = Append(@, [MakeRecord(id, res) EXCEPT
                                      !.email_date = reply.application_date]),
             !.stats.successfulExtractions = @ + 1,
             !.pc = "delay"]
     ELSE IF rs.pc = "extract_retry" THEN ItemError(rs)
     ELSE IF res.rateLimit THEN [rs EXCEPT !.pc = "extract_backoff"]
     ELSE [PushDetail(rs, "failed", TRUE) EXCEPT !.pc = "delay"]

\* EmailProcessor.extractInformation on the reply of its pending call: data,
\* null, a backoff before the one retry, or the retry's error thrown to the
\* loop's catch; and what the loop body does with the result
ExtractInformation(rs, reply) ==
  LET res == AIExtract(reply)
      id == rs.unscannedEmails[rs.i]
  IN IF ~res.threw
     THEN [PushDetail(rs, "success", TRUE) EXCEPT
             !.records = Append(@, MakeRecord(id, res)),
             !.stats.successfulExtractions = @ + 1,
             !.pc = "delay"]
     ELSE IF rs.pc = "extract_retry" THEN ItemError(rs)
     ELSE IF res.rateLimit THEN [rs EXCEPT !.pc = "extract_backoff"]
     ELSE [PushDetail(rs, "failed", TRUE) EXCEPT !.pc = "delay"]

\* A call of aiProvider.extractInformation resolves
ExtractDone(r) ==
  /\ Quiet
  /\ run[r].pc \in {"extract", "extract_retry"}
  /\ \E reply \in ExtractReplies :
       LET rs2 == ExtractInformation(run[r], reply)
       IN /\ Set(r, rs2)
          /\ classified' = LogClassify(rs2)
  /\ UNCHANGED <<flags, store, mailCount, started>>

\* await this.delay(500) resolves: on to the next item
DelayDone(r) ==
  /\ Quiet
  /\ run[r].pc = "delay"
  /\ LET rs2 == NextItem([run[r] EXCEPT !.i = @ + 1], shouldStopProcessing)
     IN /\ Set(r, rs2)
        /\ classified' = LogClassify(rs2)
  /\ UNCHANGED <<flags, store, mailCount, started>>
\* ---------------------------------------------------------------- reconciliation
\* markAsScanned, first half: const scannedIds = await this.getScannedIds()
MarkRead(r) ==
  /\ Quiet
  /\ run[r].pc = "mark_read"
  /\ \E ok \in BOOLEAN :
       Set(r, [run[r] EXCEPT !.pc = "mark_write", !.markBase = GetScannedIds(ok)])
  /\ UNCHANGED <<flags, store, mailCount, started, classified>>

\* markAsScanned, second half: the ids are added to the Set that was read and
\* the Set is stored back; a failing write is rethrown and ends the run
MarkWrite(r) ==
  /\ Quiet
  /\ run[r].pc = "mark_write"
  /\ \/ /\ scannedEmailIds' = run[r].markBase \cup Range(run[r].processedIds)
        /\ Set(r, [run[r] EXCEPT !.pc = "csv_ids"])
        /\ UNCHANGED isProcessing
     \/ /\ Fail(r)
        /\ UNCHANGED scannedEmailIds
  /\ UNCHANGED <<shouldStopProcessing, csvRecords, lastCheckpoint, mailCount,
                 started, classified>>

\* const existingIds = await csvManager.getExistingMessageIds(); the filter
\* of the candidates; with nothing new to save, the response
CsvIds(r) ==
  /\ Quiet
  /\ run[r].pc = "csv_ids"
  /\ \E ok \in BOOLEAN :
       LET rs == run[r]
           existingIds == MessageIds(ReadCSV(ok))
           newRecords == FilterNew(rs.records, existingIds)
           rs1 == [rs EXCEPT !.newRecords = newRecords,
                             !.csvDuplicates = Len(rs.records) - Len(newRecords)]
       IN IF Len(newRecords) > 0
          THEN /\ Set(r, [rs1 EXCEPT !.pc = "add_read"])
               /\ UNCHANGED isProcessing
          ELSE /\ Set(r, Succeed(rs1, 0))
               /\ isProcessing' = FALSE
  /\ UNCHANGED <<shouldStopProcessing, store, mailCount, started, classified>>

\* CSVManager.addRecords on the table it read: the candidates whose
\* message_id the table lacks go after the existing rows
AddRecords(existingRecords, newRecords) ==
  LET uniqueNewRecords == FilterNew(newRecords, MessageIds(existingRecords))
  IN [allRecords |-> existingRecords \o uniqueNewRecords,
      added |-> Len(uniqueNewRecords),
      duplicatesSkipped |-> Len(newRecords) - Len(uniqueNewRecords)]

\* addRecords, first half: existingRecords = await this.readCSV(), the
\* duplicate filter and the combined table
AddRead(r) ==
  /\ Quiet
  /\ run[r].pc = "add_read"
  /\ \E ok \in BOOLEAN :
       Set(r, [run[r] EXCEPT
                 !.pc = "add_write",
                 !.allRecords = AddRecords(ReadCSV(ok), run[r].newRecords).allRecords])
  /\ UNCHANGED <<flags, store, mailCount, started, classified>>

\* addRecords, second half: await this.writeCSV(allRecords); a failing write
\* is rethrown and ends the run
AddWrite(r) ==
  /\ Quiet
  /\ run[r].pc = "add_write"
  /\ \/ /\ csvRecords' = run[r].allRecords
        /\ Set(r, [run[r] EXCEPT !.pc = "checkpoint"])
        /\ UNCHANGED isProcessing
     \/ /\ Fail(r)
        /\ UNCHANGED csvRecords
  /\ UNCHANGED <<shouldStopProcessing, scannedEmailIds, lastCheckpoint, mailCount,
                 started, classified>>

\* await configManager.updateCheckpoint(latestEmail.date): saveSetting stores
\* the value, or returns false on a failing write; then the response
UpdateCheckpoint(r) ==
  /\ Quiet
  /\ run[r].pc = "checkpoint"
  /\ \E ok \in BOOLEAN :
       lastCheckpoint' = IF ok THEN MaxDate(run[r].emails) ELSE lastCheckpoint
  /\ Set(r, Succeed(run[r], Len(run[r].newRecords)))
  /\ isProcessing' = FALSE
  /\ UNCHANGED <<shouldStopProcessing, scannedEmailIds, csvRecords, mailCount,
                 started, classified>>

\* ---------------------------------------------------------------- specification
Next ==
  \/ \E r \in Runs : StartRun(r)
  \/ StopProcessing
  \/ ClearScanned
  \/ Deliver
  \/ \E r \in Runs : Collect(r)
  \/ \E r \in Runs : AuthDone(r)
  \/ \E r \in Runs : ScanDone(r)
  \/ \E r \in Runs : FetchDone(r)
  \/ \E r \in Runs : ClassifyDone(r)
  \/ \E r \in Runs : BackoffDone(r)
  \/ \E r \in Runs : ExtractDone(r)
  \/ \E r \in Runs : DelayDone(r)
  \/ \E r \in Runs : MarkRead(r)
  \/ \E r \in Runs : MarkWrite(r)
  \/ \E r \in Runs : CsvIds(r)
  \/ \E r \in Runs : AddRead(r)
  \/ \E r \in Runs : AddWrite(r)
  \/ \E r \in Runs : UpdateCheckpoint(r)

Spec == Init /\ [][Next]_vars
\* ---------------------------------------------------------------- the record store alone
\* Candidate rows a caller of addRecords can pass
Candidates ==
  {[message_id |-> id, company |-> c, position |-> p, email_date |-> DateOf(id)] :
     id \in Ids, c \in {"Acme", Absent}, p \in {"Engineer", Absent}}

CandidateLists ==
  {<<>>} \cup {<<c>> : c \in Candidates}
         \cup {<<c, d>> : c \in Candidates, d \in Candidates}

\* A direct call of csvManager.addRecords(newRecords), start to finish
AddRecordsCall ==
  /\ \E newRecords \in CandidateLists :
       /\ Len(csvRecords) + Len(newRecords) <= MaxTable
       /\ csvRecords' = AddRecords(ReadCSV(TRUE), newRecords).allRecords
  /\ UNCHANGED <<flags, scannedEmailIds, lastCheckpoint, mailCount, started, run,
                 classified>>

SpecStore == Init /\ [][AddRecordsCall]_vars
\* ---------------------------------------------------------------- the fetch size alone
\* The largest scan history of the runs whose fetch size is computed here
MaxSeen == 20

\* A run about to read its scan history, for every emailLimit the settings
\* allow and every size of the stored history up to MaxSeen
InitFetch ==
  /\ isProcessing = TRUE
  /\ shouldStopProcessing = FALSE
  /\ scannedEmailIds \in {1..n : n \in 0..MaxSeen}
  /\ csvRecords = <<>>
  /\ lastCheckpoint = NoCheckpoint
  /\ mailCount = 0
  /\ started = 1
  /\ \E limit \in 1..GmailCap :
       run = [r \in Runs |-> IF r = "a"
                             THEN [IdleRun EXCEPT !.pc = "scan", !.requestedLimit = limit]
                             ELSE IdleRun]
  /\ classified = {}

SpecFetch == InitFetch /\ [][ScanDone("a")]_vars
\* ---------------------------------------------------------------- one extraction alone
\* Texts the backend can give as the value of company or position
BackendTexts == {"null", "Null", "NULL", "none", "None", "NONE",
                 "Acme", "Globex", "Engineer", "N/A", ""}

\* A run waiting for the extraction of its one item, at the first call or
\* at the retry
InitExtract ==
  /\ isProcessing = TRUE
  /\ shouldStopProcessing = FALSE
  /\ scannedEmailIds = {}
  /\ csvRecords = <<>>
  /\ lastCheckpoint = NoCheckpoint
  /\ mailCount = MaxMail
  /\ started = 1
  /\ \E id \in Ids, pc \in {"extract", "extract_retry"} :
       /\ run = [r \in Runs |->
                   IF r = "a"
                   THEN [IdleRun EXCEPT !.pc = pc, !.requestedLimit = 1,
                                        !.fetchLimit = 1, !.emails = <<id>>,
                                        !.unscannedEmails = <<id>>, !.i = 1,
                                        !.attempted = <<id>>,
                                        !.stats.emailsScanned = 1,
                                        !.stats.confirmationsFound = 1]
                   ELSE IdleRun]
       /\ classified = {id}

\* The pending aiProvider.extractInformation call resolves with a JSON reply
ExtractCall ==
  /\ run["a"].pc \in {"extract", "extract_retry"}
  /\ \E c \in BackendTexts, p \in BackendTexts :
       Set("a", ExtractInformation(run["a"],
                  [kind |-> "json", company |-> c, position |-> p,
                   application_date |-> BackendDate]))
  /\ UNCHANGED <<flags, store, mailCount, started, classified>>

SpecExtract == InitExtract /\ [][ExtractCall]_vars
\* ---------------------------------------------------------------- the scanned-id store alone
\* The id lists a caller can hand to markAsScanned
IdLists == {<<a>> : a \in Ids} \cup {<<a, b>> : a \in Ids, b \in Ids}

\* scannedTracker.markAsScanned(messageIds) is called
MarkAsScannedCall ==
  /\ run["a"].pc = "idle"
  /\ \E messageIds \in IdLists :
       Set("a", [IdleRun EXCEPT !.pc = "mark_read", !.processedIds = messageIds])
  /\ UNCHANGED <<flags, store, mailCount, started, classified>>

\* markAsScanned has resolved and its caller goes on
MarkAsScannedReturn ==
  /\ run["a"].pc = "csv_ids"
  /\ Set("a", IdleRun)
  /\ UNCHANGED <<flags, store, mailCount, started, classified>>

NextSeen ==
  \/ MarkAsScannedCall
  \/ MarkRead("a")
  \/ MarkWrite("a")
  \/ MarkAsScannedReturn
  \/ Collect("a")

SpecSeen == Init /\ [][NextSeen]_vars
\* ---------------------------------------------------------------- the CSV export alone
\* A text is a sequence of characters; a timestamp is one token of it
BOM == "BOM"
Whitespace == {" ", "\n", BOM}

\* CSVManager.headers
headers == <<"email_date", "company", "position", "email_title",
             "processed_timestamp", "message_id">>

\* formatTimestamp: MM-DD-YYYY HH:MM:SS in local time (here UTC); a text that
\* is no date gives an Invalid Date, whose parts all print as NaN
FormatTimestamp(isoTimestamp) ==
  IF isoTimestamp = <<>> THEN <<>>
  ELSE IF isoTimestamp = <<"2025-01-02T03:04:05.000Z">> THEN <<"01-02-2025 03:04:05">>
  ELSE IF isoTimestamp = <<"2025-01-03T00:00:00.000Z">> THEN <<"01-03-2025 00:00:00">>
  ELSE <<"NaN-NaN-NaN NaN:NaN:NaN">>

RECURSIVE DoubleQuotes(_)
\* value.replace(/"/g, '""')
DoubleQuotes(value) ==
  IF value = <<>> THEN <<>>
  ELSE (IF Head(value) = "\"" THEN <<"\"", "\"">> ELSE <<Head(value)>>)
       \o DoubleQuotes(Tail(value))

\* One value of recordToCSVLine: timestamps reformatted, then quoted if the
\* value holds a comma, a quote or a newline
CSVValue(record, header) ==
  LET value == IF header \in {"email_date", "processed_timestamp"}
               THEN FormatTimestamp(record[header])
               ELSE record[header]
  IN IF \E k \in 1..Len(value) : value[k] \in {",", "\"", "\n"}
     THEN <<"\"">> \o DoubleQuotes(value) \o <<"\"">>
     ELSE value

RECURSIVE Join(_, _)
\* Array.join(sep)
Join(parts, sep) ==
  IF parts = <<>> THEN <<>>
  ELSE IF Len(parts) = 1 THEN parts[1]
  ELSE parts[1] \o sep \o Join(Tail(parts), sep)

recordToCSVLine(record) ==
  Join([k \in 1..Len(headers) |-> CSVValue(record, headers[k])], <<",">>)

RECURSIVE ContentLines(_)
\* content += recordToCSVLine(record) + '\n' for each record
ContentLines(records) ==
  IF records = <<>> THEN <<>>
  ELSE recordToCSVLine(Head(records)) \o <<"\n">> \o ContentLines(Tail(records))

\* The text exportAsDownload encodes into the data URL
ExportContent(records) ==
  <<BOM>> \o Join([k \in 1..Len(headers) |-> <<headers[k]>>], <<",">>) \o <<"\n">>
          \o ContentLines(records)

RECURSIVE TrimStart(_)
TrimStart(s) ==
  IF s # <<>> /\ Head(s) \in Whitespace THEN TrimStart(Tail(s)) ELSE s

RECURSIVE TrimEnd(_)
TrimEnd(s) ==
  IF s # <<>> /\ s[Len(s)] \in Whitespace THEN TrimEnd(SubSeq(s, 1, Len(s) - 1)) ELSE s

\* String.prototype.trim
Trim(s) == TrimEnd(TrimStart(s))

RECURSIVE SplitFrom(_, _)
\* split('\n'), with the piece in progress
SplitFrom(s, current) ==
  IF s = <<>> THEN <<current>>
  ELSE IF Head(s) = "\n" THEN <<current>> \o SplitFrom(Tail(s), <<>>)
  ELSE SplitFrom(Tail(s), Append(current, Head(s)))

RECURSIVE ParseFrom(_, _, _, _, _)
\* The character loop of parseCSVLine from index i on
ParseFrom(line, i, values, current, inQuotes) ==
  IF i > Len(line) THEN Append(values, current)
  ELSE LET char == line[i]
           nextIsQuote == i < Len(line) /\ line[i + 1] = "\""
       IN IF char = "\"" /\ inQuotes /\ nextIsQuote
          THEN ParseFrom(line, i + 2, values, Append(current, "\""), inQuotes)
          ELSE IF char = "\""
          THEN ParseFrom(line, i + 1, values, current, ~inQuotes)
          ELSE IF char = "," /\ ~inQuotes
          THEN ParseFrom(line, i + 1, Append(values, current), <<>>, inQuotes)
          ELSE ParseFrom(line, i + 1, values, Append(current, char), inQuotes)

parseCSVLine(line) == ParseFrom(line, 1, <<>>, <<>>, FALSE)

RECURSIVE ParseLines(_)
\* The loop of parseCSV over the data lines
ParseLines(dataLines) ==
  IF dataLines = <<>> THEN <<>>
  ELSE LET line == Head(dataLines)
           values == parseCSVLine(line)
       IN (IF Trim(line) # <<>> /\ Len(values) = Len(headers)
           THEN <<[email_date |-> values[1], company |-> values[2],
                   position |-> values[3], email_title |-> values[4],
                   processed_timestamp |-> values[5], message_id |-> values[6]]>>
           ELSE <<>>)
          \o ParseLines(Tail(dataLines))

parseCSV(content) ==
  IF Trim(content) = <<>> THEN <<>>
  ELSE LET lines == SplitFrom(Trim(content), <<>>)
       IN IF Len(lines) <= 1 THEN <<>> ELSE ParseLines(Tail(lines))

\* Characters of the extracted position, and the positions up to three
\* characters that cleanValue's trim() can leave
Chars == {"e", ",", "\"", "\n"}
PositionTexts ==
  {t \in {<<a>> : a \in Chars} \cup {<<a, b>> : a \in Chars, b \in Chars}
         \cup {<<a, b, c>> : a \in Chars, b \in Chars, c \in Chars} :
     Trim(t) = t}

\* The stored record of mail id with the given position
StoredRecord(id, position) ==
  [email_date |-> <<"2025-01-02T03:04:05.000Z">>, company |-> <<"A">>,
   position |-> position, email_title |-> <<"s">>,
   processed_timestamp |-> <<"2025-01-03T00:00:00.000Z">>,
   message_id |-> <<IF id = 1 THEN "1" ELSE "2">>]

\* The record store holds none, one or two records
InitExport ==
  /\ isProcessing = FALSE
  /\ shouldStopProcessing = FALSE
  /\ scannedEmailIds = {}
  /\ csvRecords \in {<<>>} \cup {<<StoredRecord(1, p)>> : p \in PositionTexts}
                   \cup {<<StoredRecord(1, p), StoredRecord(2, q)>> :
                           p \in PositionTexts, q \in PositionTexts}
  /\ lastCheckpoint = NoCheckpoint
  /\ mailCount = 0
  /\ started = 0
  /\ run = [r \in Runs |-> IdleRun]
  /\ classified = {}

\* csvManager.exportAsDownload(records) on the stored records resolves with
\* the data URL of the content, or rejects when the download fails
ExportCall ==
  /\ run["a"].pc = "idle"
  /\ \E ok \in BOOLEAN :
       Set("a", [IdleRun EXCEPT
                   !.pc = "done",
                   !.response = IF ok
                                THEN [kind |-> "dataUrl",
                                      content |-> ExportContent(ReadCSV(TRUE))]
                                ELSE [kind |-> "error", content |-> <<>>]])
  /\ UNCHANGED <<flags, store, mailCount, started, classified>>

NextExport ==
  \/ ExportCall
  \/ Collect("a")

SpecExport == InitExport /\ [][NextExport]_vars
\* ---------------------------------------------------------------- the batch of one run at full scale
\* The largest inbox window of the runs whose batch is selected here
MaxWindow == 503

\* A run about to read its scan history: the window holds up to MaxWindow
\* mails, of which the newest ones, about GmailCap of them, were scanned by
\* earlier runs
InitYield ==
  /\ isProcessing = TRUE
  /\ shouldStopProcessing = FALSE
  /\ mailCount \in (MaxWindow - 5)..MaxWindow
  /\ scannedEmailIds \in {(mailCount - n + 1)..mailCount :
                            n \in (GmailCap - 3)..Min(GmailCap + 1, mailCount)}
  /\ csvRecords = <<>>
  /\ lastCheckpoint = NoCheckpoint
  /\ started = 1
  /\ \E limit \in Limits :
       run = [r \in Runs |-> IF r = "a"
                             THEN [IdleRun EXCEPT !.pc = "scan", !.requestedLimit = limit]
                             ELSE IdleRun]
  /\ classified = {}

\* fetchEmails resolves with every listed message: no detail fetch fails
FetchAllDone(r) ==
  /\ Quiet
  /\ run[r].pc = "fetch"
  /\ FetchResolved(r, Range(Slice(Listing, run[r].fetchLimit)))
  /\ UNCHANGED <<shouldStopProcessing, store, mailCount, started>>

NextYield ==
  \/ ScanDone("a")
  \/ FetchAllDone("a")
  \/ Collect("a")

SpecYield == InitYield /\ [][NextYield]_vars
\* ---------------------------------------------------------------- repeated runs over a fixed window
\* Nothing is in progress, the window holds up to MaxWindow mails and the
\* newest ones, a few less than GmailCap, were scanned by earlier runs
InitRepeat ==
  /\ isProcessing = FALSE
  /\ shouldStopProcessing = FALSE
  /\ mailCount \in (MaxWindow - 3)..MaxWindow
  /\ scannedEmailIds \in {(mailCount - n + 1)..mailCount :
                            n \in (GmailCap - 3)..(GmailCap - 1)}
  /\ csvRecords = <<>>
  /\ lastCheckpoint = NoCheckpoint
  /\ started = 0
  /\ run = [r \in Runs |-> IdleRun]
  /\ classified = {}

\* onMessage 'processEmails' once more, after the previous request was answered
RepeatRun ==
  /\ \A r \in Runs : run[r].pc = "idle"
  /\ \E limit \in Limits :
       Set("a", [IdleRun EXCEPT !.pc = "auth", !.requestedLimit = limit])
  /\ isProcessing' = TRUE
  /\ shouldStopProcessing' = FALSE
  /\ UNCHANGED <<store, mailCount, started, classified>>

\* One run after the other, never cancelled, with no new mail, no failing
\* storage, authentication or Gmail call, and a backend that finds no
\* confirmation
NextRepeat ==
  \/ RepeatRun
  \/ AuthDone("a") /\ run'["a"].pc = "scan"
  \/ ScanDone("a") /\ run'["a"].scannedIds = scannedEmailIds
  \/ FetchAllDone("a")
  \/ ClassifyDone("a") /\ run'["a"].pc # "extract"
  \/ BackoffDone("a")
  \/ MarkRead("a") /\ run'["a"].markBase = scannedEmailIds
  \/ MarkWrite("a") /\ run'["a"].pc = "csv_ids"
  \/ CsvIds("a")
  \/ Collect("a")

\* Every pending await resolves and the user keeps asking for runs. The
\* step out of "fetch" is enabled exactly while the run waits for fetchEmails
\* and always leaves that position, so weak fairness of it is written as the
\* run being away from "fetch" again and again.
SpecRepeat ==
  /\ InitRepeat /\ [][NextRepeat]_vars
  /\ WF_vars(run["a"].pc # "fetch" /\ NextRepeat)
  /\ []<>(run["a"].pc # "fetch")
\* ---------------------------------------------------------------- runs while the scan history is kept
\* Every step of Next but the clearing of the scan history
NextKept ==
  \/ \E r \in Runs : StartRun(r)
  \/ StopProcessing
  \/ Deliver
  \/ \E r \in Runs : Collect(r)
  \/ \E r \in Runs : AuthDone(r)
  \/ \E r \in Runs : ScanDone(r)
  \/ \E r \in Runs : FetchDone(r)
  \/ \E r \in Runs : ClassifyDone(r)
  \/ \E r \in Runs : BackoffDone(r)
  \/ \E r \in Runs : ExtractDone(r)
  \/ \E r \in Runs : DelayDone(r)
  \/ \E r \in Runs : MarkRead(r)
  \/ \E r \in Runs : MarkWrite(r)
  \/ \E r \in Runs : CsvIds(r)
  \/ \E r \in Runs : AddRead(r)
  \/ \E r \in Runs : AddWrite(r)
  \/ \E r \in Runs : UpdateCheckpoint(r)

SpecKept == Init /\ [][NextKept]_vars
\* ---------------------------------------------------------------- runs whose calls all return
\* The step of run r that its pending await resolves into
RunStep(r) ==
  \/ AuthDone(r)
  \/ ScanDone(r)
  \/ FetchDone(r)
  \/ ClassifyDone(r)
  \/ BackoffDone(r)
  \/ ExtractDone(r)
  \/ DelayDone(r)
  \/ MarkRead(r)
  \/ MarkWrite(r)
  \/ CsvIds(r)
  \/ AddRead(r)
  \/ AddWrite(r)
  \/ UpdateCheckpoint(r)

\* One request at a time: the steps of the system with requests in slot "a"
NextReturns ==
  \/ StartRun("a")
  \/ StopProcessing
  \/ ClearScanned
  \/ Deliver
  \/ Collect("a")
  \/ RunStep("a")

\* Every external call returns, with a value or an error, so the continuation
\* of every pending await is run; and the popup takes every response
SpecReturns ==
  /\ Init /\ [][NextReturns]_vars
  /\ WF_vars(RunStep("a")) /\ WF_vars(Collect("a"))
\* ---------------------------------------------------------------- processWithRetry alone
\* The largest options.maxRetries a caller passes (0 stands for leaving it out)
MaxRetriesOption == 3

\* The replies of the extraction backend, one with both fields among them
RetryExtractReplies ==
  ExtractReplies \cup {[kind |-> "json", company |-> "Acme", position |-> "Engineer",
                        application_date |-> BackendDate]}

\* EmailProcessor.processSingleEmail on the replies of its inference calls
\* (c2 and e2 answer the retry after a rate limit): the record, or null, which
\* is also what its catch returns when a call has thrown
ProcessSingleEmail(id, c1, c2, e1, e2) ==
  LET ca == AICategorize(c1)
      cb == IF ca.threw /\ ca.rateLimit THEN AICategorize(c2) ELSE ca
      ea == AIExtract(e1)
      eb == IF ea.threw /\ ea.rateLimit THEN AIExtract(e2) ELSE ea
  IN IF cb.threw THEN [failed |-> TRUE, record |-> <<>>]
     ELSE IF ~cb.value THEN [failed |-> FALSE, record |-> <<>>]
     ELSE IF eb.threw THEN [failed |-> TRUE, record |-> <<>>]
     ELSE [failed |-> FALSE, record |-> <<MakeRecord(id, eb)>>]

\* validateRecord: message_id, email_title and email_date are always set
validateRecord(record) == record.company # Absent /\ record.position # Absent

\* processWithRetry before its first email
RetryRun(emails, option) ==
  [pc |-> "start", emails |-> emails, i |-> 1, attempt |-> 0, tries |-> 0,
   maxRetries |-> IF option = 0 THEN 2 ELSE option, delayMs |-> 0,
   records |-> <<>>, failedEmails |-> <<>>, stats |-> ZeroStats]

\* One pass of the while loop for email rs.i up to its await: the try block
\* calls processSingleEmail, unless progressCallback throws, which the catch
\* counts as a failed attempt
TryAttempt(rs, callbackThrows) ==
  IF ~callbackThrows
  THEN [rs EXCEPT !.pc = "single", !.tries = @ + 1]
  ELSE IF rs.attempt + 1 >= rs.maxRetries
  THEN [rs EXCEPT !.pc = "delay", !.tries = @ + 1, !.attempt = @ + 1,
                  !.failedEmails = Append(@, rs.emails[rs.i]),
                  !.stats.errors = @ + 1]
  ELSE [rs EXCEPT !.pc = "retry_delay", !.tries = @ + 1, !.attempt = @ + 1,
                  !.delayMs = 1000 * (rs.attempt + 1)]

\* The for loop at email rs.i: past the last email the records are returned
ForEmail(rs, callbackThrows) ==
  IF rs.i > Len(rs.emails)
  THEN [rs EXCEPT !.pc = "done"]
  ELSE TryAttempt([rs EXCEPT !.attempt = 0, !.tries = 0], callbackThrows)

\* await processSingleEmail(email) has resolved: a valid record is kept, and
\* in every case success = true ends the while loop
AfterSingle(rs, out) ==
  [rs EXCEPT !.pc = "delay",
             !.records = IF out.record # <<>> /\ validateRecord(out.record[1])
                         THEN Append(@, out.record[1]) ELSE @]

\* emailProcessor.processWithRetry(emails, options) is called
ProcessWithRetryCall ==
  /\ run["a"].pc = "idle"
  /\ \E emails \in {<<>>} \cup IdLists, option \in 0..MaxRetriesOption,
        callbackThrows \in BOOLEAN :
       Set("a", ForEmail(RetryRun(emails, option), callbackThrows))
  /\ UNCHANGED <<flags, store, mailCount, started, classified>>

\* The pending processSingleEmail call resolves
SingleDone ==
  /\ run["a"].pc = "single"
  /\ \E c1 \in CategorizeReplies, c2 \in CategorizeReplies,
        e1 \in RetryExtractReplies, e2 \in RetryExtractReplies :
       Set("a", AfterSingle(run["a"],
                  ProcessSingleEmail(run["a"].emails[run["a"].i], c1, c2, e1, e2)))
  /\ UNCHANGED <<flags, store, mailCount, started, classified>>

\* await this.delay(1000 * attempt) resolves: the while loop goes round
RetryDelayDone ==
  /\ run["a"].pc = "retry_delay"
  /\ \E callbackThrows \in BOOLEAN :
       Set("a", TryAttempt(run["a"], callbackThrows))
  /\ UNCHANGED <<flags, store, mailCount, started, classified>>

\* await this.delay(500) resolves: on to the next email
EmailDelayDone ==
  /\ run["a"].pc = "delay"
  /\ \E callbackThrows \in BOOLEAN :
       Set("a", ForEmail([run["a"] EXCEPT !.i = @ + 1], callbackThrows))
  /\ UNCHANGED <<flags, store, mailCount, started, classified>>

NextRetry ==
  \/ ProcessWithRetryCall
  \/ SingleDone
  \/ RetryDelayDone
  \/ EmailDelayDone
  \/ Collect("a")

SpecRetry == Init /\ [][NextRetry]_vars
\* ================================================================ claims
Last(q) == q[Len(q)]

IsPrefix(p, q) == Len(p) <= Len(q) /\ SubSeq(q, 1, Len(p)) = p

\* A run that has left its per-item loop (or never had one to enter)
PastLoop(rs) == rs.pc \in {"mark_read", "mark_write", "csv_ids", "add_read",
                           "add_write", "checkpoint", "done"}

\* C1: in every reachable state at most one run is between its start and
\* its response.
C1_OneActiveRun == Cardinality({r \in Runs : Active(r)}) <= 1

\* C2: once a cancellation request has reached a run while its item k was
\* in progress, the run starts none of the items k+1..n, and what it then
\* logs and marks as seen is items 1..k.
C2_CancelledAfterK ==
  [][\A r \in Runs :
       run[r].stopPending
         => /\ run'[r].attempted = run[r].attempted
            /\ (PastLoop(run'[r]) /\ run'[r].response.kind # "error")
                 => /\ run'[r].processedIds = run[r].attempted
                    /\ Len(run'[r].emailDetails) = Len(run[r].attempted)]_vars

\* C3: whenever a run stores the seen set, what it stores is the set it read
\* plus exactly the ids of the items its loop attempted (none that the filter
\* removed, the limit cut off or the cancellation left out); and a run
\* changes the seen set at no other step.
C3_MarksExactlyAttempted ==
  [][\A r \in Runs :
       /\ (run[r].pc = "mark_write" /\ run'[r].pc = "csv_ids")
            => /\ scannedEmailIds' = run[r].markBase \cup Range(run[r].attempted)
               /\ Range(run[r].attempted) \cap run[r].scannedIds = {}
               /\ IsPrefix(run[r].attempted, run[r].unscannedEmails)
               /\ Len(run[r].attempted) <= run[r].requestedLimit
       /\ (run'[r] # run[r] /\ ~(run[r].pc = "mark_write" /\ run'[r].pc = "csv_ids"))
            => scannedEmailIds' = scannedEmailIds]_vars

C3_Witness ==
  \E r \in Runs :
    /\ run[r].pc = "csv_ids"
    /\ run[r].alreadyScanned >= 1
    /\ Len(run[r].attempted) = 1
    /\ run[r].emailDetails[1].status = "skipped"
    /\ Range(run[r].attempted) \subseteq scannedEmailIds
    /\ Cardinality(scannedEmailIds) = 2

\* C4: no step of a run removes an id from the stored seen set; only
\* clearing the scan history empties it.
C4_SeenSetGrows ==
  [][scannedEmailIds' # {} => scannedEmailIds \subseteq scannedEmailIds']_vars

\* C5: after any sequence of addRecords calls the table holds at most one
\* record per message_id (so the rows added equal the distinct ids inserted).
C5_OneRecordPerId == Cardinality(MessageIds(csvRecords)) = Len(csvRecords)

\* C6: while the scan history is not cleared, each item id is passed to
\* classify in at most one run: no run starts an item that was sent to
\* classify before.
C6_ClassifiedOnce ==
  [][\A r \in Runs :
       Len(run'[r].attempted) > Len(run[r].attempted)
         => Last(run'[r].attempted) \notin classified]_vars

\* The first limit unseen items of a batch, in batch order, said by positions
IsFirstUnseen(unscanned, emails, seen, limit) ==
  LET unseenAt == {k \in 1..Len(emails) : emails[k] \notin seen}
  IN /\ Len(unscanned) = Min(limit, Cardinality(unseenAt))
     /\ \A p \in 1..Len(unscanned) :
          \E k \in unseenAt :
            /\ unscanned[p] = emails[k]
            /\ Cardinality({j \in unseenAt : j < k}) = p - 1

\* C7: the items a run hands to its loop are the first requestedLimit items,
\* in fetch order, of the fetched batch whose id is not in the seen set read
\* at the start of the run; no item of that seen set is attempted, and at
\* most requestedLimit items are.
C7_FilterStage ==
  \A r \in Runs :
    run[r].pc \notin {"idle", "auth", "scan", "fetch"}
      => /\ IsFirstUnseen(run[r].unscannedEmails, run[r].emails,
                          run[r].scannedIds, run[r].requestedLimit)
         /\ IsPrefix(run[r].attempted, run[r].unscannedEmails)
         /\ Range(run[r].attempted) \cap run[r].scannedIds = {}
         /\ Len(run[r].attempted) <= run[r].requestedLimit

C7_Witness ==
  \E r \in Runs :
    /\ run[r].pc = "classify"
    /\ Len(run[r].emails) = 2
    /\ run[r].emails[1] \in run[r].scannedIds
    /\ run[r].attempted = <<run[r].emails[2]>>

\* C8: a run that has gone through reconciliation and answers has set the
\* checkpoint to the latest date of its whole fetched batch.
C8_CheckpointAdvanced ==
  \A r \in Runs :
    (run[r].pc = "done" /\ run[r].response.kind = "success"
       /\ Len(run[r].attempted) > 0)
      => lastCheckpoint = MaxDate(run[r].emails)

\* C9: the checkpoint never decreases.
C9_CheckpointMonotone == [][lastCheckpoint' >= lastCheckpoint]_vars

ErrorEntries(details) == {k \in 1..Len(details) : details[k].status = "error"}

\* C10: a failing classify or extract of item k ends only item k: in the same
\* step the run goes on to item k+1 (or, after the last item or a
\* cancellation, to reconciliation); the failure shows as item k's outcome
\* and in the errors tally; the loop ends early only on a cancellation; an
\* error response comes only from before the loop or from the save phase.
C10_ItemFailuresIsolated ==
  [][\A r \in Runs :
       LET rs == run[r]
           rt == run'[r]
       IN /\ rt.stats.errors = Cardinality(ErrorEntries(rt.emailDetails))
          /\ (Len(rt.emailDetails) = Len(rs.emailDetails) + 1
                /\ Last(rt.emailDetails).status = "error")
               => /\ rt.records = rs.records
                  /\ rt.stats.errors = rs.stats.errors + 1
                  /\ IF rs.i < Len(rs.unscannedEmails) /\ ~shouldStopProcessing
                     THEN /\ rt.pc = "classify"
                          /\ rt.i = rs.i + 1
                          /\ rt.attempted = Append(rs.attempted, rs.unscannedEmails[rs.i + 1])
                     ELSE rt.pc = "mark_read"
          /\ (rs.pc \in LoopPcs /\ PastLoop(rt))
               => /\ rt.pc \in {"mark_read", "csv_ids"}
                  /\ \/ Len(rt.emailDetails) = Len(rt.unscannedEmails)
                     \/ shouldStopProcessing
          /\ (rs.pc # "done" /\ rt.pc = "done" /\ rt.response.kind = "error")
               => rs.pc \in {"auth", "fetch", "mark_write", "add_write"}]_vars

C10_Witness ==
  \E r \in Runs :
    /\ run[r].pc = "done"
    /\ run[r].response.kind = "success"
    /\ Len(run[r].emailDetails) = 2
    /\ run[r].emailDetails[1].status = "error"
    /\ run[r].response.errors = 1

\* C11: a run whose save phase fails (markAsScanned or addRecords throws)
\* still answers with the results it had computed: the counts and the
\* per-item outcome log, not only an error.
C11_PartialResultsReturned ==
  \A r \in Runs :
    (run[r].pc = "done" /\ run[r].response.kind = "error"
       /\ Len(run[r].emailDetails) > 0)
      => /\ run[r].response.emailDetails = run[r].emailDetails
         /\ run[r].response.emailsScanned = run[r].stats.emailsScanned
         /\ run[r].response.errors = run[r].stats.errors

\* The item's outcome entry that a step from rs to nx has logged is an error
LoggedError(rs, nx) ==
  /\ Len(nx.emailDetails) = Len(rs.emailDetails) + 1
  /\ Last(nx.emailDetails).status = "error"

C13_ExtractionFailureSkipsItem ==
  [][\A r \in Runs :
       LET rs == run[r]
           rt == run'[r]
       IN (rs.pc \in {"extract", "extract_retry"}
             /\ Len(rt.emailDetails) = Len(rs.emailDetails) + 1
             /\ rt.records = rs.records)
            => /\ Last(rt.emailDetails).status = "failed"
               /\ rt.stats.errors = rs.stats.errors
               /\ rt.pc = "delay"]_vars

\* The texts the backend can put in a field, and the ones that stand for "no value"
FieldTexts == {"Acme", "Engineer", "null", "NULL", "None", "", Absent}
NullTexts == {"null", "NULL", "None", "", Absent}

\* Every reply an extract call can resolve with
AnyExtractReply ==
  {[kind |-> "json", company |-> c, position |-> p] :
     c \in FieldTexts, p \in FieldTexts}
  \cup {[kind |-> k, company |-> Absent, position |-> Absent] : k \in {"429", "fail"}}

\* C14: a record candidate is produced for an attempted item exactly when
\* classify answered positive and the extraction result has a company or a
\* position: none with both missing, one with exactly one of them.
C14_RecordIffOneField ==
  [][\A r \in Runs :
       LET rs == run[r]
           rt == run'[r]
       IN /\ (rt.pc = "extract" /\ rs.pc # "extract")
               => /\ rs.pc \in {"classify", "classify_retry"}
                  /\ rt.i = rs.i
                  /\ rt.stats.confirmationsFound = rs.stats.confirmationsFound + 1
          /\ (Len(rt.records) > Len(rs.records))
               => /\ rs.pc \in {"extract", "extract_retry"}
                  /\ Len(rt.records) = Len(rs.records) + 1
                  /\ SubSeq(rt.records, 1, Len(rs.records)) = rs.records
                  /\ Last(rt.records).message_id = rs.unscannedEmails[rs.i]
                  /\ \/ Last(rt.records).company # Absent
                     \/ Last(rt.records).position # Absent
          /\ (rs.pc \in {"extract", "extract_retry"})
               => \A reply \in AnyExtractReply :
                    LET nx == ExtractInformation(rs, reply)
                        hasField == /\ reply.kind = "json"
                                    /\ \/ reply.company \notin NullTexts
                                       \/ reply.position \notin NullTexts
                    IN /\ (Len(nx.records) = Len(rs.records) + 1) <=> hasField
                       /\ ~hasField => nx.records = rs.records
                       /\ hasField =>
                            /\ Last(nx.records).message_id = rs.unscannedEmails[rs.i]
                            /\ Last(nx.records).company =
                                 (IF reply.company \in NullTexts THEN Absent
                                  ELSE reply.company)
                            /\ Last(nx.records).position =
                                 (IF reply.position \in NullTexts THEN Absent
                                  ELSE reply.position)]_vars

C14_Witness ==
  \E r \in Runs :
    /\ Len(run[r].emailDetails) = 2
    /\ run[r].emailDetails[1].status = "failed"
    /\ run[r].emailDetails[2].status = "success"
    /\ Len(run[r].records) = 1
    /\ run[r].records[1].company = "Acme"
    /\ run[r].records[1].position = Absent

\* The candidates of a run whose message_id the record store holds
Repeats(recs) == {k \in 1..Len(recs) : recs[k].message_id \in MessageIds(csvRecords)}

\* C15: an item met again by a later run leaves one row for its id in the
\* record store, and the run that meets it again counts it in
\* duplicatesSkipped: among the seen items of its batch, or, when the scan
\* history was cleared, among the candidates the store's message_id check
\* turns away.
C15_RepeatCountedOnce ==
  [][/\ Cardinality(MessageIds(csvRecords')) = Len(csvRecords')
     /\ \A r \in Runs :
          LET rs == run[r]
              rt == run'[r]
          IN /\ (rs.pc = "csv_ids" /\ rt.pc # "csv_ids")
                  => /\ rt.csvDuplicates = Cardinality(Repeats(rs.records))
                     /\ Len(rt.newRecords) = Len(rs.records) - rt.csvDuplicates
             /\ (rs.pc # "done" /\ rt.pc = "done" /\ rt.response.kind = "success")
                  => rt.response.duplicatesSkipped = rt.alreadyScanned + rt.csvDuplicates]_vars

\* Replies that give a record and carry a date of their own
DatedReplies ==
  {[kind |-> "json", company |-> "Acme", position |-> p, application_date |-> d] :
     p \in {"Engineer", "null"}, d \in 0..BackendDate}

\* Rows whose email_date is the received date of the message they come from
DatedBySource(recs) ==
  \A k \in 1..Len(recs) : recs[k].email_date = DateOf(recs[k].message_id)

\* C16: every record of the pipeline, as a candidate and as a stored row,
\* has the source item's received date as its email_date; whatever date the
\* backend's reply holds never gets there.
C16_DateFromSource ==
  [][/\ DatedBySource(csvRecords')
     /\ \A r \in Runs :
          LET rs == run[r]
              rt == run'[r]
          IN /\ DatedBySource(rt.records)
             /\ DatedBySource(rt.newRecords)
             /\ DatedBySource(rt.allRecords)
             /\ (rs.pc \in {"extract", "extract_retry"})
                  => \A reply \in DatedReplies :
                       LET nx == ExtractInformation(rs, reply)
                       IN /\ Len(nx.records) = Len(rs.records) + 1
                          /\ Last(nx.records).email_date
                               = DateOf(rs.unscannedEmails[rs.i])]_vars

C16_Witness ==
  /\ Len(csvRecords) = 2
  /\ csvRecords[1].email_date # csvRecords[2].email_date
  /\ \A k \in 1..2 : csvRecords[k].email_date # BackendDate

\* C17: the fetch asks the connector for requestedLimit plus the size of the
\* seen set read at the start of the run, and for 500 when that sum exceeds
\* 500; with a limit of 50 and 20 seen ids it asks for 70.
C17_OverFetchSize ==
  \A r \in Runs :
    (run[r].pc = "fetch")
      => LET sum == run[r].requestedLimit + Cardinality(run[r].scannedIds)
         IN /\ run[r].scannedIds \in {scannedEmailIds, {}}
            /\ sum <= 500 => run[r].fetchLimit = sum
            /\ sum > 500 => run[r].fetchLimit = 500

C17_Witness ==
  /\ run["a"].pc = "fetch"
  /\ run["a"].requestedLimit = 50
  /\ Cardinality(run["a"].scannedIds) = 20
  /\ run["a"].fetchLimit = 70

\* C18: a stopProcessing received during a run is still in force at that
\* run's next check: until then the flag stays set, and the run, having
\* finished at most the item in flight, issues no classify call for a later
\* item and goes on to reconciliation and its response.
C18_CancellationNotLost ==
  [][\A r \in Runs :
       LET rs == run[r]
           rt == run'[r]
       IN /\ rt.stopPending => shouldStopProcessing'
          /\ rs.stopPending
               => /\ (rt.pc = "classify") => (rs.pc = "classify" /\ rt.i = rs.i)
                  /\ Len(rt.emailDetails) <= Len(rs.attempted)
                  /\ (rt.pc \notin (PreLoopPcs \cup LoopPcs))
                       => rt.pc \in {"mark_read", "csv_ids", "done"}]_vars

\* The place of x in a sequence without repetitions
Position(s, x) == CHOOSE k \in 1..Len(s) : s[k] = x

\* res holds elements of listed, each once, in the order listed has them
InListingOrder(res, listed) ==
  /\ Range(res) \subseteq Range(listed)
  /\ \A i, j \in 1..Len(res) :
       i < j => Position(listed, res[i]) < Position(listed, res[j])

\* C19: fetchEmails gives back exactly the listed messages whose detail fetch
\* succeeded, in listing order; a rejected detail fetch drops that message
\* only, whichever and however many are rejected; the call fails as a whole
\* only for a failing authentication or listing, and then loads nothing.
C19_PartialFetch ==
  [][\A r \in Runs :
       LET rs == run[r]
           rt == run'[r]
           listed == Slice(Listing, rs.fetchLimit)
       IN (rs.pc = "fetch")
            => /\ \A fetched \in SUBSET Range(listed) :
                    LET res == FetchEmails(listed, fetched, NoCheckpoint)
                    IN /\ Range(res) = fetched
                       /\ Len(res) = Cardinality(fetched)
                       /\ InListingOrder(res, listed)
               /\ (rt.pc # "fetch")
                    => \/ /\ rt.pc = "done"
                          /\ rt.response.kind = "error"
                          /\ rt.emails = <<>>
                       \/ /\ rt.response.kind # "error"
                          /\ \E fetched \in SUBSET Range(listed) :
                               rt.emails = FetchEmails(listed, fetched, NoCheckpoint)]_vars

C19_Witness ==
  \E r \in Runs :
    /\ run[r].pc = "classify"
    /\ run[r].scannedIds = {2}
    /\ run[r].fetchLimit >= 2
    /\ run[r].emails = <<1>>

\* C20: a run whose authentication or listing fails ends there: no inference
\* call has been made, no step of it has touched the seen set, the record
\* store or the checkpoint, and the caller gets an error response.
C20_EarlyAbortLeavesStores ==
  [][\A r \in Runs :
       LET rs == run[r]
           rt == run'[r]
       IN /\ (rs.pc = "auth" /\ rt.pc = "done") => rt.response.kind = "error"
          /\ (rs.pc \in PreLoopPcs)
               => /\ rs.attempted = <<>>
                  /\ rs.emailDetails = <<>>
                  /\ rt # rs => UNCHANGED store
          /\ (rs.pc \in PreLoopPcs /\ rt.pc = "done" /\ rt.response.kind = "error")
               => /\ rt.attempted = <<>>
                  /\ rt.stats = ZeroStats
                  /\ classified' = classified
                  /\ rt.response = [NoResponse EXCEPT !.kind = "error"]
                  /\ isProcessing' = FALSE]_vars

C20_Witness ==
  \E r \in Runs :
    /\ run[r].pc = "done"
    /\ run[r].response.kind = "error"
    /\ run[r].scannedIds # {}
    /\ run[r].emails = <<>>
    /\ run[r].attempted = <<>>
    /\ csvRecords # <<>>
    /\ lastCheckpoint # NoCheckpoint

\* C21: the record store only grows at its end: every addRecords call of the
\* pipeline leaves the rows stored before it as they were and in their
\* order, and puts the accepted candidates after them in candidate order.
C21_AppendOnly ==
  [][/\ IsPrefix(csvRecords, csvRecords')
     /\ \A r \in Runs :
          (run[r].pc = "add_write" /\ run'[r].pc = "checkpoint")
            => csvRecords' = csvRecords
                 \o FilterNew(run[r].newRecords, MessageIds(csvRecords))]_vars

\* The words for "no value" in the casings a backend writes them
NullTokens == {"null", "Null", "NULL", "none", "None", "NONE"}

\* C22: whichever of the null-like words, in whichever casing, the backend
\* gives as company or position, the extraction result has no value for
\* that field: no record carries such a word.
C22_NullTokensNormalized ==
  \A r \in Runs :
    \A k \in 1..Len(run[r].records) :
      /\ run[r].records[k].company \notin NullTokens
      /\ run[r].records[k].position \notin NullTokens

\* C23: marking ids that are all in the stored set already, as the second of
\* two markAsScanned calls with the same ids does, changes neither the
\* stored set nor its count.
C23_MarkIdempotent ==
  [][(run["a"].pc = "mark_write" /\ run'["a"].pc = "csv_ids"
        /\ Range(run["a"].processedIds) \subseteq scannedEmailIds)
       => /\ scannedEmailIds' = scannedEmailIds
          /\ Cardinality(scannedEmailIds') = Cardinality(scannedEmailIds)]_vars

\* C24: re-parsing an export with parseCSV gives back the exported records,
\* as many and equal field for field, whatever comma, double quote or
\* newline their position holds.
C24_CsvRoundTrip ==
  (run["a"].pc = "done" /\ run["a"].response.kind = "dataUrl")
    => parseCSV(run["a"].response.content) = csvRecords

\* C25: the flag checkProcessingState reports is exact: isProcessing is TRUE
\* in every state where some run has started and not yet responded, and
\* FALSE in every state where no run is in progress.
C25_FlagExact == isProcessing <=> (\E r \in Runs : Active(r))

\* C26: the fixed delay comes after every attempted item: whenever a run
\* goes from item k to the classify call of item k+1, it does so out of the
\* delay, whatever the outcome of item k was.
C26_DelayAfterEveryItem ==
  [][\A r \in Runs :
       (run[r].i >= 1 /\ run'[r].i = run[r].i + 1 /\ run'[r].pc = "classify")
         => run[r].pc = "delay"]_vars

ClassifyPcs == {"classify", "classify_retry"}
ExtractPcs == {"extract", "extract_backoff", "extract_retry"}

\* C27: a run enters the extraction of an item only out of a classify call
\* of that same item that answered positive; a negative answer gives the
\* outcome "skipped" and no extraction, and a failed classify call gives no
\* extraction either.
C27_StageOrder ==
  [][\A r \in Runs :
       /\ (run'[r].pc \in ExtractPcs /\ run[r].pc \notin ExtractPcs)
            => /\ run[r].pc \in ClassifyPcs
               /\ run'[r].i = run[r].i
               /\ \A reply \in CategorizeReplies :
                    CategorizeEmail(run[r], reply) = run'[r]
                      => (~AICategorize(reply).threw /\ AICategorize(reply).value)
       /\ run[r].pc \in ClassifyPcs
            => \A reply \in CategorizeReplies :
                 LET res == AICategorize(reply)
                     nx == CategorizeEmail(run[r], reply)
                 IN /\ (~res.threw /\ ~res.value)
                         => /\ nx.pc \notin ExtractPcs
                            /\ Len(nx.emailDetails) = Len(run[r].emailDetails) + 1
                            /\ Last(nx.emailDetails).status = "skipped"
                            /\ Last(nx.emailDetails).index = run[r].i
                    /\ res.threw => nx.pc \notin ExtractPcs]_vars

\* A run extracts its second item after its first was skipped
C27_Witness ==
  \E r \in Runs :
    /\ run[r].pc = "extract"
    /\ run[r].i = 2
    /\ Len(run[r].emailDetails) = 1
    /\ run[r].emailDetails[1].status = "skipped"

\* The mails of the window that are not in the stored scan history
UnseenInWindow == Range(Listing) \ scannedEmailIds

\* C28: whenever the window holds at least requestedLimit mails that are not
\* in the scan history, the batch a run selects has exactly requestedLimit
\* items, whatever the size of the scan history.
C28_EffectiveYield ==
  [][\A r \in Runs :
       (run[r].pc = "fetch" /\ run'[r].pc # "fetch"
          /\ Cardinality(UnseenInWindow) >= run[r].requestedLimit)
         => /\ run'[r].pc = "classify"
            /\ Len(run'[r].unscannedEmails) = run[r].requestedLimit]_vars

\* Every mail of the window is in the stored scan history
WindowCovered == Range(Listing) \subseteq scannedEmailIds

\* C29: over a fixed window, repeated uncancelled runs eventually have the
\* scan history cover the window, and a run answers that all emails of the
\* period have been scanned only when the window holds no unscanned mail.
C29_ProgressAcrossRuns ==
  /\ <>WindowCovered
  /\ [][\A r \in Runs :
          (run[r].pc = "fetch" /\ run'[r].pc = "done"
             /\ run'[r].response.kind = "success" /\ Len(run'[r].emails) > 0)
            => WindowCovered]_vars

\* C30: when runs interleave their read-modify-write steps, no write loses
\* anything: the write of markAsScanned leaves every id stored before it and
\* every id it marks in the scan history, and the write of addRecords leaves
\* every record stored before it and every record it appends in the table.
C30_OverlappingWritersLoseNothing ==
  [][\A r \in Runs :
       /\ (run[r].pc = "mark_write" /\ run'[r].pc = "csv_ids")
            => (scannedEmailIds \cup Range(run[r].processedIds)) \subseteq scannedEmailIds'
       /\ (run[r].pc = "add_write" /\ run'[r].pc = "checkpoint")
            => (MessageIds(csvRecords) \cup MessageIds(run[r].newRecords))
                 \subseteq MessageIds(csvRecords')]_vars

\* C31: once processEmails has returned, the outcome log has exactly one
\* entry per attempted item, in processing order, the attempted items are a
\* prefix of the batch, entry k describes item k of the batch, and the ids
\* that handleProcessEmails maps the entries to are the attempted ids.
C31_OutcomeLogAligned ==
  \A r \in Runs :
    PastLoop(run[r])
      => /\ Len(run[r].emailDetails) = Len(run[r].attempted)
         /\ IsPrefix(run[r].attempted, run[r].unscannedEmails)
         /\ \A k \in 1..Len(run[r].emailDetails) :
              /\ run[r].emailDetails[k].index = k
              /\ run[r].attempted[k] = run[r].unscannedEmails[k]
         /\ run[r].processedIds = run[r].attempted

\* A cancelled run past its loop: two items in the batch, the first ended in
\* an error and the second was left out
C31_Witness ==
  \E r \in Runs :
    /\ run[r].pc = "mark_write"
    /\ Len(run[r].unscannedEmails) = 2
    /\ Len(run[r].emailDetails) = 1
    /\ run[r].emailDetails[1].status = "error"
    /\ run[r].processedIds = <<run[r].unscannedEmails[1]>>

\* C32: when a run ends, every record candidate it produced for an item it
\* marked as seen is in the record store under its message_id, also when the
\* run ends with an error while saving.
C32_NoExtractionLost ==
  [][\A r \in Runs :
       (run[r].pc \in {"csv_ids", "add_read", "add_write", "checkpoint"}
          /\ run'[r].pc = "done")
         => \A k \in 1..Len(run[r].records) :
              run[r].records[k].message_id \in scannedEmailIds'
                => run[r].records[k].message_id \in MessageIds(csvRecords')]_vars

\* C33: as long as the scan history has not been cleared, the message_id of
\* every record of the record store is in the scan history.
C33_RecordsAreSeen == MessageIds(csvRecords) \subseteq scannedEmailIds

\* C34: the stopped flag of a run's response is TRUE exactly when the run's
\* loop left at least one item of its batch unattempted.
C34_StoppedIffCutShort ==
  \A r \in Runs :
    (run[r].pc = "done" /\ run[r].response.kind = "success")
      => (run[r].response.stopped
            <=> Len(run[r].attempted) < Len(run[r].unscannedEmails))

\* The entries of an outcome log with the given status
EntriesWith(details, status) == {k \in 1..Len(details) : details[k].status = status}

\* C35: the counts of a run agree: emailsScanned is the number of attempted
\* items and, once the loop is over, of outcome entries; every entry has one
\* of the four outcomes; errors counts the error entries and
\* successfulExtractions the record candidates; and in the response
\* newRecords <= successfulExtractions <= confirmationsFound <= emailsScanned
\* <= requestedLimit.
C35_CountsConsistent ==
  \A r \in Runs :
    LET rs == run[r]
    IN /\ rs.stats.emailsScanned = Len(rs.attempted)
       /\ PastLoop(rs) => rs.stats.emailsScanned = Len(rs.emailDetails)
       /\ \A k \in 1..Len(rs.emailDetails) :
            rs.emailDetails[k].status \in {"skipped", "failed", "success", "error"}
       /\ rs.stats.errors = Cardinality(EntriesWith(rs.emailDetails, "error"))
       /\ rs.stats.successfulExtractions = Len(rs.records)
       /\ Len(rs.records) = Cardinality(EntriesWith(rs.emailDetails, "success"))
       /\ rs.stats.successfulExtractions <= rs.stats.confirmationsFound
       /\ rs.stats.confirmationsFound <= rs.stats.emailsScanned
       /\ rs.stats.emailsScanned <= rs.requestedLimit
       /\ (rs.pc = "done" /\ rs.response.kind = "success")
            => /\ rs.response.emailsScanned = rs.stats.emailsScanned
               /\ rs.response.confirmationsFound = rs.stats.confirmationsFound
               /\ rs.response.errors = rs.stats.errors
               /\ rs.response.newRecords <= rs.stats.successfulExtractions

\* A run has answered after two items: one ended in an error, the other gave
\* a record that was new
C35_Witness ==
  \E r \in Runs :
    /\ run[r].pc = "done"
    /\ run[r].response.kind = "success"
    /\ run[r].response.emailsScanned = 2
    /\ run[r].response.errors = 1
    /\ run[r].response.newRecords = 1

\* C36: a request is answered exactly once, whatever path its run takes: a
\* run has a response exactly while it waits at "done", nothing touches a
\* response but the popup taking it; and, every external call returning,
\* every started run gets to its response and from there back to idle.
C36_EveryRunResponds ==
  /\ [](\A r \in Runs : (run[r].pc = "done") <=> (run[r].response.kind # "none"))
  /\ [][\A r \in Runs :
          /\ run[r].response.kind # "none" => run'[r] \in {run[r], IdleRun}
          /\ (run[r].pc # "done" /\ run'[r].pc = "done") => Active(r)]_vars
  /\ \A r \in Runs : Active(r) ~> (run[r].pc = "done")
  /\ \A r \in Runs : (run[r].pc = "done") ~> (run[r].pc = "idle")

\* A run that attempted an item and produced a record has answered with an
\* error out of its save phase
C36_Witness ==
  \E r \in Runs :
    /\ run[r].pc = "done"
    /\ run[r].response.kind = "error"
    /\ Len(run[r].records) = 1
    /\ started = 2

\* C37: a run whose fetch gives no mail, or only mail that is in the scan
\* history it read, answers straight out of the fetch: no inference call, the
\* scan history, the record store and the checkpoint as they were,
\* emailsScanned = 0, newRecords = 0 and duplicatesSkipped = the number of
\* fetched mails found in that scan history.
C37_NothingNewChangesNothing ==
  [][\A r \in Runs :
       LET rs == run[r]
           rt == run'[r]
       IN (rs.pc = "fetch" /\ rt.pc # "fetch" /\ rt.response.kind # "error")
            => /\ (rt.pc = "done") <=> (Range(rt.emails) \subseteq rs.scannedIds)
               /\ (rt.pc = "done")
                    => /\ UNCHANGED store
                       /\ classified' = classified
                       /\ rt.attempted = <<>>
                       /\ rt.emailDetails = <<>>
                       /\ rt.response.kind = "success"
                       /\ rt.response.emailsScanned = 0
                       /\ rt.response.newRecords = 0
                       /\ rt.response.duplicatesSkipped
                            = Cardinality(Range(rt.emails) \cap rs.scannedIds)]_vars

\* A run has answered that both mails it fetched were scanned before
C37_Witness ==
  \E r \in Runs :
    /\ run[r].pc = "done"
    /\ run[r].response.kind = "success"
    /\ Len(run[r].emails) = 2
    /\ run[r].attempted = <<>>
    /\ run[r].response.duplicatesSkipped = 2

\* C38: an email whose processing fails is attempted again, after a growing
\* delay, until maxRetries attempts have been made; only the last failed
\* attempt counts it in stats.errors and reports it as failed; and no email
\* is attempted more than maxRetries times.
C38_FailingEmailRetried ==
  [][/\ run["a"].pc \in {"single", "retry_delay", "delay"}
          => run["a"].tries <= run["a"].maxRetries
     /\ run["a"].pc = "single"
          => \A c1 \in CategorizeReplies, c2 \in CategorizeReplies,
                e1 \in RetryExtractReplies, e2 \in RetryExtractReplies :
               LET rs == run["a"]
                   out == ProcessSingleEmail(rs.emails[rs.i], c1, c2, e1, e2)
                   nx == AfterSingle(rs, out)
               IN out.failed
                    => IF rs.tries < rs.maxRetries
                       THEN /\ nx.pc = "retry_delay"
                            /\ nx.delayMs > rs.delayMs
                            /\ nx.stats.errors = rs.stats.errors
                       ELSE /\ nx.stats.errors = rs.stats.errors + 1
                            /\ nx.failedEmails
                                 = Append(rs.failedEmails, rs.emails[rs.i])]_vars
====
